---- MODULE Spec2Model ----
(***************************************************************************)
(* Model of newslynx/tasks/query_metric.py: the TSQuery timeseries query   *)
(* compiler (construction, metric selection, stage compilers, stage        *)
(* selection, execute) and the relational meaning of the compiled stages.  *)
(***************************************************************************)
EXTENDS Integers, Sequences, FiniteSets, TLC

(***************************************************************************)
(* Bounds of the model.                                                    *)
(***************************************************************************)
MaxHour == 2          \* raw timestamps are the hours 0..MaxHour
HoursPerDay == 2      \* a 'day' bucket holds this many hours in the model
MaxRows == 2          \* stored measurement rows in the table
MaxSubmit == 1        \* submissions to the storage engine per query object

(***************************************************************************)
(* Class attributes of TSQuery.                                            *)
(***************************************************************************)
date_col == "datetime"
metrics_col == "metrics"
sparse_table == "sparse"
min_unit == "hour"
table == "content_metric_timeseries"
id_col == "content_item_id"
cal_fx == "content_metric_calendar"

(***************************************************************************)
(* Python values.  A string, an int or a list is [t, v]; None, a           *)
(* datetime and a date string are [t, h] with h the hour they denote.      *)
(***************************************************************************)
Str(s) == [t |-> "str", v |-> s]
List(l) == [t |-> "list", v |-> l]
None == [t |-> "None", h |-> 0]
DateTime(h) == [t |-> "datetime", h |-> h]
IsoStr(h) == [t |-> "str", h |-> h]
Truthy(d) == d.t # "None"
Range(s) == {s[i] : i \in 1..Len(s)}

RECURSIVE Without(_, _)
\* dict.pop of every listed key: the remaining keys keep their order
Without(s, drop) ==
    IF s = <<>> THEN <<>>
    ELSE IF Head(s) \in drop THEN Without(Tail(s), drop)
    ELSE <<Head(s)>> \o Without(Tail(s), drop)

(***************************************************************************)
(* The organisation's metric catalog: name -> definition.                  *)
(***************************************************************************)
MetricDefs ==
    [n \in {"pageviews", "shares", "followers", "share_rate"} |->
        CASE n = "pageviews" -> [name |-> n, type |-> "count", agg_fx |-> "sum"]
          [] n = "shares" -> [name |-> n, type |-> "cumulative", agg_fx |-> "sum"]
          [] n = "followers" -> [name |-> n, type |-> "cumulative", agg_fx |-> "max"]
          [] n = "share_rate" -> [name |-> n, type |-> "computed", agg_fx |-> "avg"]]
content_timeseries_metrics == <<"pageviews", "shares", "followers">>
computed_content_timeseries_metrics == <<"share_rate">>

VARIABLES
    orgMetrics,     \* keys of the mapping org.content_timeseries_metrics, in iteration order
    orgComputed,    \* keys of the mapping org.computed_content_timeseries_metrics
    objs,           \* the TSQuery objects: position in __init__ and attributes
    submitted,      \* per object, the statements handed to db.session.execute
    compiled,       \* per object, what its last access of query returned
    calls,          \* per object, for each call of execute: what the engine did
                    \* with the statement and what the call gave its caller
    rows            \* the stored measurement rows of the timeseries table

vars == <<orgMetrics, orgComputed, objs, submitted, compiled, calls, rows>>

Slots == {1, 2}
NoObj == [pc |-> "none"]
NotCompiled == [stage |-> "not compiled"]

(***************************************************************************)
(* Attribute access on an object under construction or built.              *)
(***************************************************************************)
Built(q) == objs[q].pc = "built"
\* mutant: the select loops consume the mapping (popitem), so that an
\* access of query after the first one finds it empty
metrics_drained(q) == IF compiled[q] = NotCompiled THEN orgMetrics ELSE <<>>

\* self.metrics / self.computed_metrics are the mapping objects that
\* getattr(org, ...) returned: the organisation's own mappings.
metrics(q) == orgMetrics
computed_metrics(q) == orgComputed

(***************************************************************************)
(* TSQuery.__init__, up to the two calls that end it.                      *)
(***************************************************************************)
New(q, kw) ==
    /\ objs[q].pc = "none"
    /\ objs' = [objs EXCEPT ![q] =
            [pc |-> "select_metrics",
             ids |-> IF kw.ids.t # "list" THEN <<kw.ids.v>> ELSE kw.ids.v,
             select |-> kw.select,
             exclude |-> kw.exclude,
             unit |-> kw.unit,
             sparse |-> kw.sparse,
             sig_digits |-> kw.sig_digits,
             group_by_id |-> kw.group_by_id,
             transform |-> kw.transform,
             before |-> kw.before,
             after |-> kw.after,
             filter_dates |-> FALSE]]
    /\ UNCHANGED <<orgMetrics, orgComputed, submitted, compiled, calls, rows>>

\* the select half of select_metrics: the value of self.select afterwards
select_list(sel) == IF sel # Str("*") /\ sel.t # "list" THEN List(<<sel.v>>) ELSE sel
\* the exclude half: the value of self.exclude afterwards
exclude_list(exc) == IF exc.t # "list" THEN List(<<exc.v>>) ELSE exc

\* mutant: a select naming a key of neither mapping is taken as "*"
select_pops_known_only(m, sel) ==
    IF sel # Str("*") /\ Range(select_list(sel).v) \subseteq Range(m)
    THEN {n \in Range(m) : n \notin Range(select_list(sel).v)} ELSE {}

\* keys popped from a mapping m by the select loop
select_pops(m, sel) ==
    IF sel # Str("*") THEN {n \in Range(m) : n \notin Range(select_list(sel).v)} ELSE {}
\* mutant: the exclude loop tests 'n not in self.exclude'
exclude_pops_inverted(m, exc) ==
    IF Len(exclude_list(exc).v) > 0
    THEN {n \in Range(m) : n \notin Range(exclude_list(exc).v)} ELSE {}

\* keys popped from a mapping m by the exclude loop
exclude_pops(m, exc) ==
    IF Len(exclude_list(exc).v) > 0
    THEN {n \in Range(m) : n \in Range(exclude_list(exc).v)} ELSE {}

select_metrics(q) ==
    /\ objs[q].pc = "select_metrics"
    /\ LET o == objs[q]
           m1 == Without(orgMetrics, select_pops(orgMetrics, o.select))
           c1 == Without(orgComputed, select_pops(orgComputed, o.select))
       IN /\ orgMetrics' = Without(m1, exclude_pops(m1, o.exclude))
          /\ orgComputed' = Without(c1, exclude_pops(c1, o.exclude))
          /\ objs' = [objs EXCEPT ![q] =
                [o EXCEPT !.pc = "format_dates",
                          !.select = select_list(o.select),
                          !.exclude = exclude_list(o.exclude)]]
    /\ UNCHANGED <<submitted, compiled, calls, rows>>

format_date(d) == IF d.t = "datetime" THEN IsoStr(d.h) ELSE d

format_dates(q) ==
    /\ objs[q].pc = "format_dates"
    /\ LET o == objs[q]
       IN objs' = [objs EXCEPT ![q] =
            [o EXCEPT !.pc = "built",
                      !.filter_dates = Truthy(o.before) \/ Truthy(o.after),
                      !.before = IF Truthy(o.before) THEN format_date(o.before) ELSE o.before,
                      !.after = IF Truthy(o.after) THEN format_date(o.after) ELSE o.after]]
    /\ UNCHANGED <<orgMetrics, orgComputed, submitted, compiled, calls, rows>>

\* the object is dropped by its caller; the slot is free for a new one
Discard(q) ==
    /\ Built(q)
    /\ objs' = [objs EXCEPT ![q] = NoObj]
    /\ submitted' = [submitted EXCEPT ![q] = <<>>]
    /\ compiled' = [compiled EXCEPT ![q] = NotCompiled]
    /\ calls' = [calls EXCEPT ![q] = <<>>]
    /\ UNCHANGED <<orgMetrics, orgComputed, rows>>

(***************************************************************************)
(* Compiled text.  A statement is the record of the fields its template    *)
(* is formatted with; a nested statement is a field that is a statement.   *)
(***************************************************************************)
ids_array(q) == [array |-> objs[q].ids]

\* "" is [and |-> FALSE, no clauses]
date_filter(q) ==
    LET o == objs[q]
        b == IF Truthy(o.before)
             THEN <<[col |-> date_col, op |-> "<=", value |-> o.before]>> ELSE <<>>
        a == IF Truthy(o.after)
             THEN <<[col |-> date_col, op |-> ">=", value |-> o.after]>> ELSE <<>>
    IN IF ~o.filter_dates THEN [and |-> FALSE, clauses |-> <<>>]
       ELSE [and |-> TRUE, clauses |-> b \o a]

query_kw(q) ==
    [table |-> table,
     id_col |-> id_col,
     date_col |-> date_col,
     sig_digits |-> objs[q].sig_digits,
     metrics_col |-> metrics_col,
     unit |-> objs[q].unit,
     cal_fx |-> cal_fx,
     sparse_table |-> sparse_table,
     ids_array |-> ids_array(q),
     date_filter |-> date_filter(q)]

\* dict(self.query_kw.items() + kw.items()): the keys of kw win
add_kw(q, kw) == kw @@ query_kw(q)

\* SELECT STATEMENTS
select_json_template(k) ==
    [fn |-> "json_numeric", metrics_col |-> k.metrics_col, name |-> k.name]

select_json(q, metric) == select_json_template(add_kw(q, metric))

select_simple_template(k, j) ==
    [fn |-> "simple", j |-> j, as |-> k.name]

select_simple(q, metric) ==
    select_simple_template(add_kw(q, metric), select_json(q, metric))

select_cumulative_to_count_template(k, j) ==
    [fn |-> "coalesce_minus_lag", j |-> j,
        partition_by |-> k.id_col, order_by |-> k.date_col, as |-> k.name]

\* mutant: the lag window has no PARTITION BY
select_cumulative_to_count_unpartitioned(q, metric) ==
    select_cumulative_to_count_template([add_kw(q, metric) EXCEPT !.id_col = ""],
                                        select_json(q, metric))

select_cumulative_to_count(q, metric) ==
    select_cumulative_to_count_template(add_kw(q, metric), select_json(q, metric))

select_agg_template(k) ==
    [fn |-> "round_agg", agg_fx |-> k.agg_fx, name |-> k.name,
        sig_digits |-> k.sig_digits, as |-> k.name]

select_agg(q, metric) == select_agg_template(add_kw(q, metric))

select_non_sparse_template(k) ==
    [fn |-> "coalesce_zero", sparse_table |-> k.sparse_table, name |-> k.name,
        as |-> k.name]

\* mutant: the column of the joined relation is selected as it is
select_non_sparse_plain(q, metric) ==
    [fn |-> "column", name |-> metric.name, as |-> metric.name]

select_non_sparse(q, metric) == select_non_sparse_template(add_kw(q, metric))

select_cumulative_template(k, p) ==
    [fn |-> "window_sum", name |-> k.name, partition_by |-> p,
     order_by |-> k.date_col, as |-> k.name]

\* mutant: the partition is dropped when group_by_id is set
select_cumulative_unpartitioned(q, metric) ==
    select_cumulative_template(add_kw(q, metric),
                               IF objs[q].group_by_id THEN "" ELSE id_col)

select_cumulative(q, metric) ==
    select_cumulative_template(add_kw(q, metric),
                               IF ~objs[q].group_by_id THEN "" ELSE id_col)

\* mutant: a cumulative metric is selected like a count
init_select_all_simple(q) ==
    [i \in 1..Len(metrics(q)) |-> select_simple(q, MetricDefs[metrics(q)[i]])]

\* the select lists iterate self.metrics.items()
init_select(q) ==
    [i \in 1..Len(metrics(q)) |->
        LET m == MetricDefs[metrics(q)[i]]
        IN IF m.type = "cumulative" THEN select_cumulative_to_count(q, m)
           ELSE select_simple(q, m)]

agg_select(q) ==
    [i \in 1..Len(metrics(q)) |-> select_agg(q, MetricDefs[metrics(q)[i]])]

non_sparse_select(q) ==
    [i \in 1..Len(metrics(q)) |-> select_non_sparse(q, MetricDefs[metrics(q)[i]])]

\* mutant: the loop skips a metric whose agg_fx is not sum
cumulative_select_sum_only(q) ==
    LET sums == SelectSeq(metrics(q), LAMBDA n : MetricDefs[n].agg_fx = "sum")
    IN [i \in 1..Len(sums) |-> select_cumulative(q, MetricDefs[sums[i]])]

cumulative_select(q) ==
    [i \in 1..Len(metrics(q)) |->
        LET n == metrics(q)[i]
            m == MetricDefs[n]
        IN IF m.agg_fx = "sum" THEN select_cumulative(q, m)
           ELSE [fn |-> "column", name |-> n, as |-> n]]

(***************************************************************************)
(* The four stages.                                                        *)
(***************************************************************************)
init_kw(q) ==
    add_kw(q, [select |-> init_select(q),
               init_id_col |-> IF ~objs[q].group_by_id THEN "" ELSE id_col])

init_query_template(k) ==
    [stage |-> "init",
        init_id_col |-> k.init_id_col,
        unit |-> k.unit,
        date_col |-> k.date_col,
        select |-> k.select,
        table |-> k.table,
        id_col |-> k.id_col,
        ids_array |-> k.ids_array,
        date_filter |-> k.date_filter]

init_query(q) == init_query_template(init_kw(q))

\* mutant: the aggregate is nested in a second aggregate
agg_kw_nested(q) ==
    add_kw(q, [select |-> agg_select(q),
               init_query |-> [stage |-> "agg",
                               agg_id_col |-> IF ~objs[q].group_by_id THEN "" ELSE id_col,
                               unit |-> objs[q].unit,
                               date_col |-> date_col,
                               select |-> agg_select(q),
                               init_query |-> init_query(q),
                               agg_order_by |-> IF ~objs[q].group_by_id THEN "" ELSE id_col],
               agg_id_col |-> IF ~objs[q].group_by_id THEN "" ELSE id_col,
               agg_order_by |-> IF ~objs[q].group_by_id THEN "" ELSE id_col])

agg_kw(q) ==
    add_kw(q, [select |-> agg_select(q),
               init_query |-> init_query(q),
               agg_id_col |-> IF ~objs[q].group_by_id THEN "" ELSE id_col,
               agg_order_by |-> IF ~objs[q].group_by_id THEN "" ELSE id_col])

\* mutant: the aggregate filters its input by date a second time
agg_query_template_filtered(k) ==
    [stage |-> "agg",
        agg_id_col |-> k.agg_id_col,
        unit |-> k.unit,
        date_col |-> k.date_col,
        select |-> k.select,
        init_query |-> k.init_query,
        date_filter |-> k.date_filter,
        agg_order_by |-> k.agg_order_by]

agg_query_template(k) ==
    [stage |-> "agg",
        agg_id_col |-> k.agg_id_col,
        unit |-> k.unit,
        date_col |-> k.date_col,
        select |-> k.select,
        init_query |-> k.init_query,
        agg_order_by |-> k.agg_order_by]

\* mutant: the ORDER BY names the date column alone
agg_query_ordered_by_date(q) ==
    agg_query_template([agg_kw(q) EXCEPT !.agg_order_by = ""])

agg_query(q) == agg_query_template(agg_kw(q))

cal_kw(q) ==
    add_kw(q, [before |-> IF Truthy(objs[q].before) THEN <<objs[q].before>> ELSE <<>>,
               after |-> IF Truthy(objs[q].after) THEN <<objs[q].after>> ELSE <<>>])

\* the call of the calendar function: its arguments, in order
cal_template(k) ==
    [cal_fx |-> k.cal_fx,
        args |-> <<[interval |-> k.unit], k.ids_array>> \o k.after \o k.before]

cal(q) == cal_template(cal_kw(q))

\* mutant: the joined relation is the aggregate whatever the unit
non_sparse_kw_always_agg(q) ==
    LET g == objs[q].group_by_id
    IN add_kw(q, [select |-> non_sparse_select(q),
                  init_q |-> agg_query(q),
                  cal |-> cal(q),
                  cal_id_join |-> IF g THEN id_col ELSE "",
                  cal_id_col1 |-> IF g THEN id_col ELSE "",
                  cal_id_col2 |-> IF g THEN id_col ELSE "",
                  cal_order_by |-> IF g THEN id_col ELSE "",
                  cal_date_select |-> IF g THEN "plain" ELSE "distinct"])

non_sparse_kw(q) ==
    LET g == objs[q].group_by_id
    IN add_kw(q, [select |-> non_sparse_select(q),
                  init_q |-> IF objs[q].unit = min_unit THEN init_query(q)
                             ELSE agg_query(q),
                  cal |-> cal(q),
                  cal_id_join |-> IF g THEN id_col ELSE "",
                  cal_id_col1 |-> IF g THEN id_col ELSE "",
                  cal_id_col2 |-> IF g THEN id_col ELSE "",
                  cal_order_by |-> IF g THEN id_col ELSE "",
                  cal_date_select |-> IF g THEN "plain" ELSE "distinct"])

non_sparse_query_template(k) ==
    [stage |-> "non_sparse",
        sparse_table |-> k.sparse_table,
        init_q |-> k.init_q,
        cal_id_col1 |-> k.cal_id_col1,
        cal_date_select |-> k.cal_date_select,
        cal |-> k.cal,
        cal_id_col2 |-> k.cal_id_col2,
        date_col |-> k.date_col,
        select |-> k.select,
        cal_id_join |-> k.cal_id_join,
        cal_order_by |-> k.cal_order_by]

non_sparse_query(q) == non_sparse_query_template(non_sparse_kw(q))

\* mutant: the initial query is chosen as the simple branch of query
\* chooses it, by sparse and unit alone
cumulative_kw_by_unit(q) ==
    LET o == objs[q]
    IN add_kw(q, [select |-> cumulative_select(q),
                  init_q |-> IF o.sparse /\ o.unit = min_unit
                             THEN init_query(q)
                             ELSE IF o.sparse THEN agg_query(q)
                             ELSE non_sparse_query(q),
                  _id_col |-> IF ~o.group_by_id THEN "" ELSE id_col])

cumulative_kw(q) ==
    LET o == objs[q]
    IN add_kw(q, [select |-> cumulative_select(q),
                  init_q |-> IF o.sparse /\ o.unit = "hour" /\ o.group_by_id
                             THEN init_query(q)
                             ELSE IF o.sparse THEN agg_query(q)
                             ELSE non_sparse_query(q),
                  _id_col |-> IF ~o.group_by_id THEN "" ELSE id_col])

cumulative_query_template(k) ==
    [stage |-> "cumulative",
        date_col |-> k.date_col,
        _id_col |-> k._id_col,
        select |-> k.select,
        init_q |-> k.init_q]

\* mutant: the window sum is selected for every metric, whatever its agg_fx
cumulative_query_all_summed(q) ==
    cumulative_query_template(
        [cumulative_kw(q) EXCEPT !.select =
            [i \in 1..Len(metrics(q)) |-> select_cumulative(q, MetricDefs[metrics(q)[i]])]])

cumulative_query(q) == cumulative_query_template(cumulative_kw(q))

\* a property that falls off its last branch returns None
NoneStmt == [stage |-> "None"]

\* mutant: the aggregate branch is tested before the simple one
query_agg_first(q) ==
    LET o == objs[q]
    IN IF o.sparse /\ ~Truthy(o.transform) THEN agg_query(q)
       ELSE IF o.sparse /\ o.unit = min_unit /\ ~Truthy(o.transform) THEN init_query(q)
       ELSE IF ~o.sparse /\ ~Truthy(o.transform) THEN non_sparse_query(q)
       ELSE IF o.transform = Str("cumulative") THEN cumulative_query(q)
       ELSE NoneStmt

\* The whole shebang
query(q) ==
    LET o == objs[q]
    IN IF o.sparse /\ o.unit = min_unit /\ ~Truthy(o.transform) THEN init_query(q)
       ELSE IF o.sparse /\ ~Truthy(o.transform) THEN agg_query(q)
       ELSE IF ~o.sparse /\ ~Truthy(o.transform) THEN non_sparse_query(q)
       ELSE IF o.transform = Str("cumulative") THEN cumulative_query(q)
       ELSE NoneStmt

\* what db.session.execute can do with a statement: hand back a cursor or
\* raise; a statement of None is no executable text
EngineOutcomes(stmt) == IF stmt = NoneStmt THEN {"raises"} ELSE {"cursor", "raises"}

\* what the call gives its caller: ResultIter(cursor), or the exception
\* that left db.session.execute
Outcome(e) == [engine |-> e, caller |-> IF e = "cursor" THEN "ResultIter" ELSE "raised"]

\* mutant: a statement the engine raised on is submitted a second time
execute_retry(q) ==
    /\ Built(q)
    /\ Len(submitted[q]) < MaxSubmit
    /\ \E e \in EngineOutcomes(query(q)) :
          /\ submitted' = [submitted EXCEPT ![q] =
                IF e = "raises" THEN Append(Append(@, query(q)), query(q))
                ELSE Append(@, query(q))]
          /\ calls' = [calls EXCEPT ![q] = Append(@, Outcome(e))]
    /\ UNCHANGED <<orgMetrics, orgComputed, objs, compiled, rows>>

\* Execute the query, stream the results.
execute(q) ==
    /\ Built(q)
    /\ Len(submitted[q]) < MaxSubmit
    /\ \E e \in EngineOutcomes(query(q)) :
          /\ submitted' = [submitted EXCEPT ![q] = Append(@, query(q))]
          /\ calls' = [calls EXCEPT ![q] = Append(@, Outcome(e))]
    /\ UNCHANGED <<orgMetrics, orgComputed, objs, compiled, rows>>

\* mutant: the select loops pop the items of the mapping they read
AccessQuery_popping(q) ==
    /\ Built(q)
    /\ compiled' = [compiled EXCEPT ![q] =
            [text |-> query(q), metrics |-> orgMetrics, computed |-> orgComputed]]
    /\ orgMetrics' = <<>>
    /\ UNCHANGED <<orgComputed, objs, submitted, calls, rows>>

\* one access of the query property; the caller keeps what it returned
AccessQuery(q) ==
    /\ Built(q)
    /\ compiled' = [compiled EXCEPT ![q] =
            [text |-> query(q), metrics |-> orgMetrics, computed |-> orgComputed]]
    /\ UNCHANGED <<orgMetrics, orgComputed, objs, submitted, calls, rows>>

(***************************************************************************)
(* Inputs of the constructor.                                              *)
(***************************************************************************)
IdsInputs == {List(<<>>), [t |-> "int", v |-> 1], List(<<1, 2>>)}
SelectInputs == {Str("*"), Str("pageviews"), Str("nosuch"),
                 List(<<"pageviews", "shares", "share_rate", "nosuch">>)}
ExcludeInputs == {List(<<>>), Str("pageviews"), List(<<"shares", "share_rate", "nosuch">>)}
DateInputs == {[before |-> None, after |-> None],
               [before |-> DateTime(MaxHour), after |-> DateTime(0)],
               [before |-> IsoStr(1), after |-> None]}
TransformInputs == {None, Str("cumulative"), Str("avg")}

Kw(ids, sel, exc, unit, sparse, gbi, tr, d) ==
    [ids |-> ids, select |-> sel, exclude |-> exc, unit |-> unit, sparse |-> sparse,
     sig_digits |-> 2, group_by_id |-> gbi, transform |-> tr,
     before |-> d.before, after |-> d.after]

KwPlan ==
    {Kw(ids, sel, exc, unit, sparse, gbi, tr, d) :
        ids \in IdsInputs, sel \in SelectInputs, exc \in ExcludeInputs,
        unit \in {"hour", "day"}, sparse \in BOOLEAN, gbi \in BOOLEAN,
        tr \in TransformInputs, d \in DateInputs}

Init ==
    /\ orgMetrics = content_timeseries_metrics
    /\ orgComputed = computed_content_timeseries_metrics
    /\ objs = [q \in Slots |-> NoObj]
    /\ submitted = [q \in Slots |-> <<>>]
    /\ calls = [q \in Slots |-> <<>>]
    /\ compiled = [q \in Slots |-> NotCompiled]
    /\ rows = {}

Next ==
    \/ \E kw \in KwPlan : New(1, kw)
    \/ select_metrics(1)
    \/ format_dates(1)
    \/ AccessQuery(1)
    \/ execute(1)
    \/ Discard(1)

Spec == Init /\ [][Next]_vars

\* two callers, each with its own object, built for the same organisation;
\* the steps that interleave are those of construction and compilation
KwConc ==
    {Kw(List(<<1, 2>>), sel, exc, "hour", TRUE, TRUE, tr, [before |-> None, after |-> None]) :
        sel \in SelectInputs \ {Str("nosuch")}, exc \in ExcludeInputs,
        tr \in {None, Str("cumulative")}}

NextConc ==
    \E q \in Slots :
        \/ \E kw \in KwConc : New(q, kw)
        \/ select_metrics(q)
        \/ format_dates(q)
        \/ AccessQuery(q)
        \/ Discard(q)

SpecConc == Init /\ [][NextConc]_vars


(***************************************************************************)
(* Reading a compiled statement.                                           *)
(***************************************************************************)
\* the statement a stage reads from, if it has one
HasInner(st) == st.stage \in {"agg", "non_sparse", "cumulative"}
Inner(st) == IF st.stage = "agg" THEN st.init_query ELSE st.init_q

RECURSIVE Stages(_)
\* the stages of a statement, outermost first
Stages(st) ==
    IF st.stage = "None" THEN <<>>
    ELSE IF HasInner(st) THEN <<st>> \o Stages(Inner(st)) ELSE <<st>>

\* the names of the metric columns a stage emits
Columns(st) == {st.select[i].as : i \in 1..Len(st.select)}
AllColumns(st) == UNION {Columns(Stages(st)[i]) : i \in 1..Len(Stages(st))}

\* every statement an object compiled so far, by access or by execute
Texts(q) ==
    Range(submitted[q]) \cup
    (IF compiled[q] = NotCompiled THEN {} ELSE {compiled[q].text})

(***************************************************************************)
(* The storage engine: what a compiled statement returns on the stored     *)
(* rows.  A relation is a sequence of rows [id, dt, vals]; id is NoId when *)
(* the statement selects no id column.  Numbers are in thousandths.        *)
(***************************************************************************)
EntityIds == {1, 2}
NoId == 0
NULL == 0 - 1000000
Hours == 0..MaxHour

\* date_trunc(unit, t)
date_trunc(unit, t) == IF unit = "hour" THEN t ELSE (t \div HoursPerDay) * HoursPerDay

\* every (dt, id) pair, by dt ascending and then id ascending
KeyOrder == [k \in 1..((MaxHour + 1) * 3) |-> <<(k - 1) \div 3, (k - 1) % 3>>]

RECURSIVE TableFrom(_, _)
\* a set of rows with one row per (dt, id) as a sequence, in that order:
\* the stored rows, and the rows of an ORDER BY datetime, id
TableFrom(T, k) ==
    IF k > Len(KeyOrder) THEN <<>>
    ELSE LET S == {r \in T : <<r.dt, r.id>> = KeyOrder[k]}
         IN (IF S = {} THEN <<>> ELSE <<CHOOSE r \in S : TRUE>>) \o TableFrom(T, k + 1)

\* (metrics ->> 'name')::text::numeric
JsonNumeric(r, name) == IF name \in DOMAIN r.metrics THEN r.metrics[name] ELSE NULL

Coalesce(a, b) == IF a # NULL THEN a ELSE b
Minus(a, b) == IF a = NULL \/ b = NULL THEN NULL ELSE a - b

RECURSIVE SumSeq(_)
SumSeq(s) == IF s = <<>> THEN 0 ELSE Head(s) + SumSeq(Tail(s))
NonNull(s) == SelectSeq(s, LAMBDA x : x # NULL)
Max(S) == CHOOSE x \in S : \A y \in S : y <= x
Min(S) == CHOOSE x \in S : \A y \in S : x <= y

\* n / d rounded to the nearest integer, halves away from zero
RoundDiv(n, d) ==
    IF n >= 0 THEN (2 * n + d) \div (2 * d) ELSE 0 - ((2 * (0 - n) + d) \div (2 * d))
RECURSIVE Pow10(_)
Pow10(n) == IF n <= 0 THEN 1 ELSE 10 * Pow10(n - 1)

\* ROUND(agg_fx(values), sig_digits) of a group's column
RoundAgg(agg_fx, sig_digits, vs) ==
    LET nn == NonNull(vs)
        u == Pow10(3 - sig_digits)
    IN IF nn = <<>> THEN NULL
       ELSE CASE agg_fx = "sum" -> RoundDiv(SumSeq(nn), u) * u
              [] agg_fx = "avg" -> RoundDiv(SumSeq(nn), u * Len(nn)) * u
              [] agg_fx = "max" -> RoundDiv(Max(Range(nn)), u) * u
              [] agg_fx = "min" -> RoundDiv(Min(Range(nn)), u) * u
              [] OTHER -> NULL

\* sum(...) over a window
WindowSum(vs) == IF NonNull(vs) = <<>> THEN NULL ELSE SumSeq(NonNull(vs))

Column(rel, name) == [i \in 1..Len(rel) |-> rel[i].vals[name]]

\* the WHERE clause of the init stage
DateOk(f, t) ==
    \A i \in 1..Len(f.clauses) :
        IF f.clauses[i].op = "<=" THEN t <= f.clauses[i].value.h
        ELSE t >= f.clauses[i].value.h

InitSource(st, T) ==
    SelectSeq(TableFrom(T, 1),
              LAMBDA r : r.id \in Range(st.ids_array.array) /\ DateOk(st.date_filter, r.dt))

\* one select expression of the init stage on the i-th source row
InitValue(e, src, i) ==
    LET j == JsonNumeric(src[i], e.j.name)
    IN IF e.fn = "simple" THEN j
       ELSE \* COALESCE(j - lag(j) OVER (PARTITION BY id ORDER BY datetime ASC), j)
         LET before == {k \in 1..Len(src) :
                            /\ e.partition_by = id_col => src[k].id = src[i].id
                            /\ src[k].dt < src[i].dt}
             lag == IF before = {} THEN NULL
                    ELSE JsonNumeric(src[CHOOSE k \in before :
                            \A l \in before : src[l].dt <= src[k].dt], e.j.name)
         IN Coalesce(Minus(j, lag), j)

EvalInit(st, T) ==
    LET src == InitSource(st, T)
    IN [i \in 1..Len(src) |->
          [id |-> IF st.init_id_col = "" THEN NoId ELSE src[i].id,
           dt |-> date_trunc(st.unit, src[i].dt),
           vals |-> [n \in Columns(st) |->
                        InitValue(st.select[CHOOSE c \in 1..Len(st.select) :
                                                st.select[c].as = n], src, i)]]]

SelectOf(st, n) == st.select[CHOOSE c \in 1..Len(st.select) : st.select[c].as = n]

\* the aggregate stage on the relation inp it reads
EvalAggOn(st, inp) ==
    LET keys == {<<inp[i].dt, inp[i].id>> : i \in 1..Len(inp)}
        group(g) == SelectSeq(inp, LAMBDA r : <<r.dt, r.id>> = g)
    IN TableFrom({[id |-> IF st.agg_id_col = "" THEN NoId ELSE g[2],
                   dt |-> date_trunc(st.unit, g[1]),
                   vals |-> [n \in Columns(st) |->
                                RoundAgg(SelectOf(st, n).agg_fx, SelectOf(st, n).sig_digits,
                                         Column(group(g), SelectOf(st, n).name))]] :
                  g \in keys}, 1)

\* the calendar function: one row per listed id and per bucket of the unit
\* from its third argument to its fourth; a bound that is not given is the
\* first (last) stored hour of the listed ids
CalRows(c, T) ==
    LET ids == Range(c.args[2].array)
        seen == {r.dt : r \in {x \in T : x.id \in ids}}
        unit == c.args[1].interval
        from == IF Len(c.args) >= 3 THEN {c.args[3].h}
                ELSE IF seen = {} THEN {} ELSE {Min(seen)}
        to == IF Len(c.args) >= 4 THEN {c.args[4].h}
              ELSE IF seen = {} THEN {} ELSE {Max(seen)}
    IN {[id |-> i, dt |-> date_trunc(unit, h)] :
            i \in ids, h \in {t \in Hours : \E a \in from, b \in to : a <= t /\ t <= b}}

\* select [id,] datetime | distinct(datetime) from cal(...)
CalSelect(st, T) ==
    {[id |-> IF st.cal_id_col1 = "" THEN NoId ELSE c.id, dt |-> c.dt] : c \in CalRows(st.cal, T)}

NonSparseRow(st, c, vals) ==
    [id |-> IF st.cal_id_col2 = "" THEN NoId ELSE c.id,
     dt |-> c.dt,
     vals |-> [n \in Columns(st) |->
                 IF SelectOf(st, n).fn = "coalesce_zero" THEN Coalesce(vals[n], 0)
                 ELSE vals[n]]]

RECURSIVE JoinFrom(_, _, _, _)
\* cal LEFT JOIN sparse ON the date (and the id) ORDER BY the date (and the id)
JoinFrom(st, sp, calseq, k) ==
    IF k > Len(calseq) THEN <<>>
    ELSE LET c == calseq[k]
             match == SelectSeq(sp, LAMBDA r :
                          r.dt = c.dt /\ (st.cal_id_join = "" \/ r.id = c.id))
         IN (IF match = <<>>
             THEN <<NonSparseRow(st, c, [n \in Columns(st) |-> NULL])>>
             ELSE [i \in 1..Len(match) |-> NonSparseRow(st, c, match[i].vals)])
            \o JoinFrom(st, sp, calseq, k + 1)

EvalNonSparseOn(st, sp, T) == JoinFrom(st, sp, TableFrom(CalSelect(st, T), 1), 1)

\* the cumulative stage on the relation inp it reads
EvalCumulativeOn(st, inp) ==
    [i \in 1..Len(inp) |->
        [id |-> IF st._id_col = "" THEN NoId ELSE inp[i].id,
         dt |-> inp[i].dt,
         vals |-> [n \in Columns(st) |->
                     LET e == SelectOf(st, n)
                     IN IF e.fn = "window_sum"
                        THEN WindowSum(Column(
                                SelectSeq(inp, LAMBDA r :
                                    /\ r.dt <= inp[i].dt
                                    /\ (e.partition_by = "" \/ r.id = inp[i].id)),
                                e.name))
                        ELSE inp[i].vals[e.name]]]]

RECURSIVE Eval(_, _)
\* the rows the engine returns for a statement
Eval(st, T) ==
    CASE st.stage = "init" -> EvalInit(st, T)
      [] st.stage = "agg" -> EvalAggOn(st, Eval(st.init_query, T))
      [] st.stage = "non_sparse" -> EvalNonSparseOn(st, Eval(st.init_q, T), T)
      [] st.stage = "cumulative" -> EvalCumulativeOn(st, Eval(st.init_q, T))
      [] OTHER -> <<>>

(***************************************************************************)
(* One caller on a table that holds measurements.                          *)
(***************************************************************************)
Values == {1004, 2505}
Json(v) == [n \in Range(content_timeseries_metrics) |-> v]
RowUniverse == {[id |-> i, dt |-> h, metrics |-> Json(v)] :
                    i \in EntityIds, h \in Hours, v \in Values}
\* the table has one row per id and hour
Tables ==
    {T \in SUBSET RowUniverse :
        /\ Cardinality(T) <= MaxRows
        /\ \A r1, r2 \in T : r1.id = r2.id /\ r1.dt = r2.dt => r1 = r2}

DateInputsData == {[before |-> None, after |-> None],
                   [before |-> DateTime(MaxHour), after |-> DateTime(0)],
                   [before |-> IsoStr(MaxHour), after |-> IsoStr(1)]}

KwData ==
    {Kw(List(<<1, 2>>), Str("*"), List(<<>>), unit, sparse, gbi, tr, d) :
        unit \in {"hour", "day"}, sparse \in BOOLEAN, gbi \in BOOLEAN,
        tr \in {None, Str("cumulative")}, d \in DateInputsData}

InitData ==
    /\ orgMetrics = content_timeseries_metrics
    /\ orgComputed = computed_content_timeseries_metrics
    /\ objs = [q \in Slots |-> NoObj]
    /\ submitted = [q \in Slots |-> <<>>]
    /\ calls = [q \in Slots |-> <<>>]
    /\ compiled = [q \in Slots |-> NotCompiled]
    /\ rows \in Tables

NextData ==
    \/ \E kw \in KwData : New(1, kw)
    \/ select_metrics(1)
    \/ format_dates(1)
    \/ execute(1)
    \/ Discard(1)

SpecData == InitData /\ [][NextData]_vars

Constructed(q) == objs[q].pc # "none"

(***************************************************************************)
(* C1: with sparse=true, unit = min_unit and no transform, every statement *)
(* the object compiles is the init stage alone: a single statement that    *)
(* reads from the table and not from another statement.                    *)
(***************************************************************************)
C1_Minimal(q) ==
    /\ Built(q) /\ objs[q].sparse /\ objs[q].unit = min_unit
    /\ ~Truthy(objs[q].transform)

C1_MinimalStage ==
    \A q \in Slots : Constructed(q) /\ C1_Minimal(q) =>
        \A st \in Texts(q) : st.stage = "init" /\ ~HasInner(st) /\ Len(Stages(st)) = 1

C1_Witness ==
    \E q \in Slots : /\ Constructed(q) /\ C1_Minimal(q)
                     /\ compiled[q] # NotCompiled /\ submitted[q] # <<>>
                     /\ ~objs[q].group_by_id /\ objs[q].filter_dates

(***************************************************************************)
(* C2: a name listed in both select and exclude is in neither selected     *)
(* metric mapping of the object and is no column of any stage of any       *)
(* statement the object compiles.                                          *)
(***************************************************************************)
InBoth(q) ==
    IF objs[q].select.t = "list"
    THEN Range(objs[q].select.v) \cap Range(objs[q].exclude.v) ELSE {}

C2_ExcludeWins ==
    \A q \in Slots : Constructed(q) /\ Built(q) =>
        \A n \in InBoth(q) :
            /\ n \notin Range(metrics(q))
            /\ n \notin Range(computed_metrics(q))
            /\ \A st \in Texts(q) : n \notin AllColumns(st)

C2_Witness ==
    \E q \in Slots : /\ Constructed(q) /\ Built(q)
                     /\ {"shares", "share_rate"} \subseteq InBoth(q)
                     /\ Len(metrics(q)) > 0
                     /\ \E st \in Texts(q) : Len(Stages(st)) > 1

(***************************************************************************)
(* C3: an object whose transform is outside {none, cumulative} never       *)
(* gets a result from query and never submits anything.                    *)
(***************************************************************************)
UnsupportedTransform(q) ==
    Truthy(objs[q].transform) /\ objs[q].transform # Str("cumulative")

C3_TransformRejected ==
    \A q \in Slots : Constructed(q) /\ UnsupportedTransform(q) =>
        compiled[q] = NotCompiled /\ submitted[q] = <<>>

(***************************************************************************)
(* C4: construction with an empty list of ids does not complete, and       *)
(* nothing is compiled or submitted for it.                                *)
(***************************************************************************)
C4_EmptyIdsRejected ==
    \A q \in Slots : Constructed(q) /\ objs[q].ids = <<>> =>
        ~Built(q) /\ compiled[q] = NotCompiled /\ submitted[q] = <<>>

(***************************************************************************)
(* C5: the organisation's base and computed metric mappings keep their     *)
(* initial value whatever objects are constructed.                         *)
(***************************************************************************)
C5_CatalogUnchanged ==
    /\ orgMetrics = content_timeseries_metrics
    /\ orgComputed = computed_content_timeseries_metrics

(***************************************************************************)
(* C6: whatever another caller does, the metric columns of every stage of  *)
(* every statement an object compiles are the catalog metrics its own      *)
(* select and exclude keep, as when it is the only object built.           *)
(***************************************************************************)
\* the base metrics an object selects when it is the only object built
SoloMetrics(q) ==
    LET m1 == Without(content_timeseries_metrics,
                      select_pops(content_timeseries_metrics, objs[q].select))
    IN Without(m1, exclude_pops(m1, objs[q].exclude))

ColumnSeq(st) == [i \in 1..Len(st.select) |-> st.select[i].as]

C6_NoInterference ==
    \A q \in Slots : Constructed(q) /\ Built(q) =>
        \A st \in Texts(q) :
            \A i \in 1..Len(Stages(st)) : ColumnSeq(Stages(st)[i]) = SoloMetrics(q)

(***************************************************************************)
(* C7: an access of query returns the text the previous access of the same *)
(* object returned when the catalog is as it was then, and two objects     *)
(* with equal attributes that compiled against equal catalogs hold the     *)
(* same text.                                                              *)
(***************************************************************************)
WasCompiled(q) == compiled[q] # NotCompiled
SameCatalog(c, d) == c.metrics = d.metrics /\ c.computed = d.computed

NonNegative(rel, n) == \A k \in 1..Len(rel) : rel[k].vals[n] >= 0

UpTo(q, inp, r) ==
    SelectSeq(inp, LAMBDA x : x.dt <= r.dt /\ (objs[q].group_by_id => x.id = r.id))

RunningTotals(q, inp, out) ==
    /\ Len(out) = Len(inp)
    /\ \A i \in 1..Len(out) :
         \A n \in DOMAIN out[i].vals :
            MetricDefs[n].agg_fx = "sum" /\ NonNegative(inp, n) =>
                out[i].vals[n] = SumSeq(Column(UpTo(q, inp, out[i]), n))

C8_CumulativeCorrect ==
    \A q \in Slots : Constructed(q) /\ Built(q) /\ objs[q].transform = Str("cumulative") =>
        \A st \in Texts(q) :
            /\ st.stage = "cumulative"
            /\ RunningTotals(q, Eval(st.init_q, rows), Eval(st, rows))

C8_Witness ==
    \E q \in Slots :
        /\ Constructed(q) /\ Built(q) /\ objs[q].transform = Str("cumulative")
        /\ objs[q].group_by_id /\ submitted[q] # <<>>
        /\ LET out == Eval(submitted[q][1], rows)
           IN \E i, k \in 1..Len(out) :
                /\ out[i].id = out[k].id /\ out[i].dt < out[k].dt
                /\ out[i].vals["pageviews"] > 0
                /\ out[k].vals["pageviews"] > out[i].vals["pageviews"]

(***************************************************************************)
(* C9: with sparse=false, both bounds and group_by_id=true, the densify    *)
(* stage returns one row for each listed id and each bucket of the unit in *)
(* [after, before] and no other row, and every metric of a row whose id    *)
(* has no stored measurement in the bucket is 0.                           *)
(***************************************************************************)
WindowBuckets(q) ==
    {date_trunc(objs[q].unit, h) : h \in {t \in Hours : objs[q].after.h <= t /\ t <= objs[q].before.h}}

Measured(q, i, b) == \E r \in rows : r.id = i /\ date_trunc(objs[q].unit, r.dt) = b

Dense(q, out) ==
    /\ \A i \in Range(objs[q].ids), b \in WindowBuckets(q) :
         /\ Cardinality({k \in 1..Len(out) : out[k].id = i /\ out[k].dt = b}) = 1
         /\ ~Measured(q, i, b) =>
              \A k \in 1..Len(out) : out[k].id = i /\ out[k].dt = b =>
                 /\ DOMAIN out[k].vals = Range(metrics(q))
                 /\ \A n \in DOMAIN out[k].vals : out[k].vals[n] = 0
    /\ \A k \in 1..Len(out) :
         out[k].id \in Range(objs[q].ids) /\ out[k].dt \in WindowBuckets(q)

C9_Case(q) ==
    /\ Constructed(q) /\ Built(q) /\ ~objs[q].sparse /\ objs[q].group_by_id
    /\ Truthy(objs[q].after) /\ Truthy(objs[q].before)

C9_DensifyComplete ==
    \A q \in Slots : C9_Case(q) =>
        \A st \in Texts(q) :
            /\ \E i \in 1..Len(Stages(st)) : Stages(st)[i].stage = "non_sparse"
            /\ \A i \in 1..Len(Stages(st)) :
                 Stages(st)[i].stage = "non_sparse" => Dense(q, Eval(Stages(st)[i], rows))

C9_Witness ==
    \E q \in Slots :
        /\ C9_Case(q) /\ submitted[q] # <<>> /\ ~Truthy(objs[q].transform)
        /\ objs[q].unit = "day"
        /\ LET out == Eval(submitted[q][1], rows)
           IN /\ \E k \in 1..Len(out) : out[k].vals["pageviews"] > 0
              /\ \E k \in 1..Len(out) :
                    ~Measured(q, out[k].id, out[k].dt) /\ out[k].vals["pageviews"] = 0

(***************************************************************************)
(* C10: with group_by_id=false every statement the object submits returns  *)
(* at most one row per bucket timestamp.                                   *)
(***************************************************************************)
OneRowPerBucket(out) == \A i, k \in 1..Len(out) : out[i].dt = out[k].dt => i = k

C10_MergedSeries ==
    \A q \in Slots : Constructed(q) /\ Built(q) /\ ~objs[q].group_by_id =>
        \A st \in Texts(q) : OneRowPerBucket(Eval(st, rows))

(***************************************************************************)
(* C11: with sparse=true, unit='hour', group_by_id=true and                *)
(* transform=cumulative, every stored row of a listed id inside the date   *)
(* bounds gives one output row, and in it a metric of kind cumulative with *)
(* aggregation sum has the raw stored value of that row, the first row of  *)
(* the entity included.                                                    *)
(***************************************************************************)
C11_Case(q) ==
    /\ Constructed(q) /\ Built(q) /\ objs[q].sparse /\ objs[q].unit = "hour"
    /\ objs[q].group_by_id /\ objs[q].transform = Str("cumulative")

CumulativeSumMetrics(st) ==
    {n \in Columns(st) : MetricDefs[n].type = "cumulative" /\ MetricDefs[n].agg_fx = "sum"}

\* the stored rows the object's statement reads
InWindow(q) ==
    {r \in rows : /\ r.id \in Range(objs[q].ids)
                  /\ Truthy(objs[q].before) => r.dt <= objs[q].before.h
                  /\ Truthy(objs[q].after) => r.dt >= objs[q].after.h}

RoundTrip(q, st, out) ==
    /\ \A r \in InWindow(q) :
         Cardinality({k \in 1..Len(out) : out[k].id = r.id /\ out[k].dt = r.dt}) = 1
    /\ \A k \in 1..Len(out) :
         \E r \in InWindow(q) :
            /\ r.id = out[k].id /\ r.dt = out[k].dt
            /\ \A n \in CumulativeSumMetrics(st) : out[k].vals[n] = r.metrics[n]

KnownNames == Range(content_timeseries_metrics) \cup Range(computed_content_timeseries_metrics)

Known(l) == SelectSeq(l, LAMBDA n : n \in KnownNames)

\* the names a mapping m keeps under select sel and exclude exc
Selected(m, sel, exc) ==
    LET m1 == Without(m, select_pops(m, sel))
    IN Without(m1, exclude_pops(m1, exc))

WithoutUnknown(x) == IF x = Str("*") THEN x ELSE List(Known(select_list(x).v))

HasUnknown(x) == x # Str("*") /\ \E n \in Range(select_list(x).v) : n \notin KnownNames

C12_Step(q) ==
    objs[q].pc = "select_metrics" /\ objs'[q].pc # "select_metrics" =>
        /\ objs'[q].pc = "format_dates"
        /\ orgMetrics' = Selected(orgMetrics, WithoutUnknown(objs[q].select),
                                  WithoutUnknown(objs[q].exclude))
        /\ orgComputed' = Selected(orgComputed, WithoutUnknown(objs[q].select),
                                   WithoutUnknown(objs[q].exclude))

C12_UnknownTolerated == [][\A q \in Slots : C12_Step(q)]_vars

C12_Witness ==
    \E q \in Slots :
        /\ objs[q].pc = "format_dates"
        /\ HasUnknown(objs[q].select) /\ HasUnknown(objs[q].exclude)
        /\ orgMetrics = <<"pageviews">> /\ orgComputed = <<>>

(***************************************************************************)
(* C13: in every statement an object compiles, the select list of every    *)
(* stage (Init, Aggregate, Densify, Cumulative) names exactly the metrics  *)
(* of the mapping that select and exclude left to the object, in the same  *)
(* order, and each of them passes the object's select and exclude.         *)
(***************************************************************************)
Survives(q, n) ==
    /\ objs[q].select # Str("*") => n \in Range(objs[q].select.v)
    /\ n \notin Range(objs[q].exclude.v)

C14_Step(q) ==
    submitted'[q] # submitted[q] \/ calls'[q] # calls[q] =>
        \/ submitted'[q] = <<>> /\ calls'[q] = <<>>
        \/ /\ submitted'[q] = Append(submitted[q], query(q))
           /\ Len(calls'[q]) = Len(calls[q]) + 1
           /\ SubSeq(calls'[q], 1, Len(calls[q])) = calls[q]
           /\ LET c == calls'[q][Len(calls'[q])]
              IN (c.engine = "raises") <=> (c.caller = "raised")

C14_SubmitOnce == [][\A q \in Slots : C14_Step(q)]_vars

C14_Witness ==
    \E q \in Slots :
        /\ Constructed(q) /\ Built(q)
        /\ Len(submitted[q]) = 1 /\ submitted[q][1].stage = "agg"
        /\ calls[q] = <<Outcome("raises")>>

\* the names of the stages of a statement, outermost first
StageNames(st) == [i \in 1..Len(Stages(st)) |-> Stages(st)[i].stage]

(***************************************************************************)
(* C15: with transform = cumulative the statement is the Cumulative stage, *)
(* and the stage it wraps is Init exactly when sparse, unit = 'hour' and   *)
(* group_by_id all hold, Aggregate over Init in every other sparse case    *)
(* (unit = 'hour' without group_by_id included), and Densify whenever      *)
(* sparse is false.                                                        *)
(***************************************************************************)
C15_Case(q) == Constructed(q) /\ Built(q) /\ objs[q].transform = Str("cumulative")

C15_Wrapped(q, st) ==
    LET o == objs[q]
        w == st.init_q
    IN /\ st.stage = "cumulative"
       /\ (w.stage = "init") <=> (o.sparse /\ o.unit = "hour" /\ o.group_by_id)
       /\ o.sparse /\ ~(o.unit = "hour" /\ o.group_by_id)
            => StageNames(w) = <<"agg", "init">>
       /\ (w.stage = "non_sparse") <=> ~o.sparse

C15_CumulativeWraps ==
    \A q \in Slots : C15_Case(q) => \A st \in Texts(q) : C15_Wrapped(q, st)

C15_Witness ==
    \E q \in Slots :
        /\ C15_Case(q) /\ submitted[q] # <<>>
        /\ objs[q].sparse /\ objs[q].unit = "hour" /\ ~objs[q].group_by_id
        /\ StageNames(submitted[q][1]) = <<"cumulative", "agg", "init">>

(***************************************************************************)
(* C16: with sparse = false and no transform the statement is the Densify  *)
(* stage, and the relation it left-joins onto the calendar is Init when    *)
(* unit is the minimum unit and Aggregate over Init for every other unit.  *)
(***************************************************************************)
C16_Case(q) ==
    Constructed(q) /\ Built(q) /\ ~objs[q].sparse /\ ~Truthy(objs[q].transform)

C16_DensifyWraps ==
    \A q \in Slots : C16_Case(q) =>
        \A st \in Texts(q) :
            StageNames(st) = IF objs[q].unit = min_unit
                             THEN <<"non_sparse", "init">>
                             ELSE <<"non_sparse", "agg", "init">>

C16_Witness ==
    \E q \in Slots :
        /\ C16_Case(q) /\ submitted[q] # <<>> /\ objs[q].unit = min_unit
        /\ submitted[q][1].stage = "non_sparse"
        /\ submitted[q][1].init_q.stage = "init"

(***************************************************************************)
(* C17: with sparse = true, no transform and a unit other than the minimum *)
(* unit the statement is the Aggregate stage reading the Init stage, and   *)
(* holds no Densify or Cumulative stage.                                   *)
(***************************************************************************)
C17_Case(q) ==
    /\ Constructed(q) /\ Built(q) /\ objs[q].sparse
    /\ ~Truthy(objs[q].transform) /\ objs[q].unit # min_unit

C17_AggregateWrapsInit ==
    \A q \in Slots : C17_Case(q) =>
        \A st \in Texts(q) : StageNames(st) = <<"agg", "init">>

C17_Witness ==
    \E q \in Slots :
        /\ C17_Case(q) /\ submitted[q] # <<>>
        /\ submitted[q][1].stage = "agg" /\ submitted[q][1].init_query.stage = "init"
        /\ submitted[q][1].unit = "day"

(***************************************************************************)
(* C18: the Init stage emits one row per stored row it reads; in it a      *)
(* metric of kind cumulative is the raw value minus the raw value of the   *)
(* previous row read for the same entity in ascending time order, the raw  *)
(* value itself when the row is the first one read for its entity, and a   *)
(* metric of kind count is the raw value.                                  *)
(***************************************************************************)
InitStage(st) == Stages(st)[Len(Stages(st))]

\* the rows read for the entity of r that are earlier than r
Earlier(q, r) == {p \in InWindow(q) : p.id = r.id /\ p.dt < r.dt}
Previous(q, r) == CHOOSE p \in Earlier(q, r) : \A x \in Earlier(q, r) : x.dt <= p.dt

InitExpected(q, r) ==
    [id |-> IF objs[q].group_by_id THEN r.id ELSE NoId,
     dt |-> date_trunc(objs[q].unit, r.dt),
     vals |-> [n \in Range(metrics(q)) |->
                 IF MetricDefs[n].type = "cumulative" /\ Earlier(q, r) # {}
                 THEN r.metrics[n] - Previous(q, r).metrics[n]
                 ELSE r.metrics[n]]]

C18_Holds(q, out) ==
    /\ Len(out) = Cardinality(InWindow(q))
    /\ \A r \in InWindow(q) : \E k \in 1..Len(out) : out[k] = InitExpected(q, r)

C19_Select(q, st) ==
    \A i \in 1..Len(st.select) :
        LET e == st.select[i]
        IN /\ (e.fn = "window_sum") <=> (MetricDefs[e.as].agg_fx = "sum")
           /\ e.fn = "window_sum" =>
                (e.partition_by = id_col) <=> objs[q].group_by_id
           /\ e.fn # "window_sum" => e.fn = "column" /\ e.name = e.as

C19_Rows(q, inp, out) ==
    /\ Len(out) = Len(inp)
    /\ \A i \in 1..Len(out) :
         /\ out[i].dt = inp[i].dt
         /\ \A n \in DOMAIN out[i].vals :
              out[i].vals[n] = IF MetricDefs[n].agg_fx = "sum"
                               THEN SumSeq(Column(UpTo(q, inp, inp[i]), n))
                               ELSE inp[i].vals[n]

C19_SumOnly ==
    \A q \in Slots : Constructed(q) /\ Built(q) /\ objs[q].transform = Str("cumulative") =>
        \A st \in Texts(q) :
            /\ C19_Select(q, st)
            /\ C19_Rows(q, Eval(st.init_q, rows), Eval(st, rows))

C19_Witness ==
    \E q \in Slots :
        /\ Constructed(q) /\ Built(q) /\ objs[q].transform = Str("cumulative")
        /\ ~objs[q].group_by_id /\ submitted[q] # <<>>
        /\ \E r1, r2 \in rows : r1.id # r2.id
        /\ LET inp == Eval(submitted[q][1].init_q, rows)
               out == Eval(submitted[q][1], rows)
           IN /\ Len(out) = 2
              /\ out[2].vals["followers"] = inp[2].vals["followers"]
              /\ out[2].vals["followers"] > 0
              /\ out[2].vals["pageviews"] = inp[1].vals["pageviews"] + inp[2].vals["pageviews"]
              /\ inp[1].vals["pageviews"] > 0

(***************************************************************************)
(* C20: in every statement the date filter stands in the Init stage and in *)
(* no other stage; it holds one inclusive clause for each bound that is    *)
(* set (datetime <= before, datetime >= after) and nothing else; with no   *)
(* bound set it is the empty text, and it is never an AND followed by no   *)
(* clause.                                                                 *)
(***************************************************************************)
BoundClauses(q) ==
    {[col |-> date_col, op |-> "<=", value |-> objs[q].before] :
        x \in IF Truthy(objs[q].before) THEN {1} ELSE {}}
    \cup
    {[col |-> date_col, op |-> ">=", value |-> objs[q].after] :
        x \in IF Truthy(objs[q].after) THEN {1} ELSE {}}

C20_Filter(q, f) ==
    /\ Range(f.clauses) = BoundClauses(q)
    /\ Len(f.clauses) = Cardinality(BoundClauses(q))
    /\ f.and <=> f.clauses # <<>>
    /\ \A i \in 1..Len(f.clauses) : f.clauses[i].value.t = "str"

C20_DateFilterOnce ==
    \A q \in Slots : Constructed(q) /\ Built(q) =>
        \A st \in Texts(q) :
            \A i \in 1..Len(Stages(st)) :
                LET s == Stages(st)[i]
                IN /\ ("date_filter" \in DOMAIN s) <=> (s.stage = "init")
                   /\ s.stage = "init" => C20_Filter(q, s.date_filter)

C20_Witness ==
    \E q \in Slots :
        /\ Constructed(q) /\ Built(q) /\ submitted[q] # <<>>
        /\ Len(Stages(submitted[q][1])) = 4
        /\ InitStage(submitted[q][1]).date_filter =
              [and |-> TRUE,
               clauses |-> <<[col |-> date_col, op |-> "<=", value |-> IsoStr(MaxHour)],
                             [col |-> date_col, op |-> ">=", value |-> IsoStr(0)]>>]

(***************************************************************************)
(* C21: a computed metric that select and exclude left in                  *)
(* self.computed_metrics is a column of the select list of every stage of  *)
(* every statement the object compiles, as a base metric left in           *)
(* self.metrics is.                                                        *)
(***************************************************************************)
C21_ComputedCompiled ==
    \A q \in Slots : Constructed(q) /\ Built(q) =>
        \A st \in Texts(q) :
            \A i \in 1..Len(Stages(st)) :
                /\ Range(metrics(q)) \subseteq Columns(Stages(st)[i])
                /\ Range(computed_metrics(q)) \subseteq Columns(Stages(st)[i])

(***************************************************************************)
(* The order of the rows the engine returns for an aggregate statement:    *)
(* any order of its rows that its ORDER BY allows.                         *)
(***************************************************************************)
\* ORDER BY {date_col} {agg_order_by} ASC: the sort keys, first to last
AggOrderBy(st) == <<st.date_col>> \o (IF st.agg_order_by = "" THEN <<>> ELSE <<st.agg_order_by>>)

\* the value of a sort key in an output row
KeyValue(r, key) == IF key = date_col THEN r.dt ELSE r.id

RECURSIVE NotAfter(_, _, _)
\* row a may stand before row b under the sort keys, all ascending
NotAfter(a, b, keys) ==
    IF keys = <<>> THEN TRUE
    ELSE \/ KeyValue(a, Head(keys)) < KeyValue(b, Head(keys))
         \/ /\ KeyValue(a, Head(keys)) = KeyValue(b, Head(keys))
            /\ NotAfter(a, b, Tail(keys))

Orders(s) ==
    {[i \in 1..Len(s) |-> s[p[i]]] :
        p \in {f \in [1..Len(s) -> 1..Len(s)] : \A i, j \in 1..Len(s) : f[i] = f[j] => i = j}}

AggResults(st, T) ==
    {out \in Orders(Eval(st, T)) :
        \A i, j \in 1..Len(out) : i < j => NotAfter(out[i], out[j], AggOrderBy(st))}

(***************************************************************************)
(* C22: the rows of an aggregate statement come back by bucket timestamp   *)
(* ascending, and within one bucket by entity id ascending when            *)
(* group_by_id is set; with group_by_id unset the ORDER BY names the       *)
(* timestamp alone.                                                        *)
(***************************************************************************)
C22_Sorted(q, out) ==
    \A i, j \in 1..Len(out) : i < j =>
        /\ out[i].dt <= out[j].dt
        /\ objs[q].group_by_id /\ out[i].dt = out[j].dt => out[i].id < out[j].id

C22_AggregateOrder ==
    \A q \in Slots : Constructed(q) /\ Built(q) =>
        \A st \in Texts(q) : st.stage = "agg" =>
            /\ AggOrderBy(st) = IF objs[q].group_by_id THEN <<date_col, id_col>>
                                ELSE <<date_col>>
            /\ AggResults(st, rows) # {}
            /\ \A out \in AggResults(st, rows) : C22_Sorted(q, out)

C22_Witness ==
    \E q \in Slots :
        /\ Constructed(q) /\ Built(q) /\ objs[q].group_by_id /\ submitted[q] # <<>>
        /\ submitted[q][1].stage = "agg"
        /\ \E out \in AggResults(submitted[q][1], rows) :
              /\ Len(out) = 2
              /\ out[1].dt = out[2].dt /\ out[1].id < out[2].id

(***************************************************************************)
(* C23: an access of query, and with it of the stage and keyword           *)
(* properties it reads, or a call of execute, changes no attribute of any  *)
(* object (ids, unit, sparse, group_by_id, transform, select, exclude,     *)
(* before, after, sig_digits) and neither of the two metric mappings.      *)
(***************************************************************************)
C23_Access(q) ==
    \/ compiled'[q] # compiled[q] /\ compiled'[q] # NotCompiled
    \/ Len(submitted'[q]) > Len(submitted[q])

C23_NoMutation ==
    [][\A q \in Slots : C23_Access(q) =>
            /\ objs' = objs
            /\ orgMetrics' = orgMetrics
            /\ orgComputed' = orgComputed]_vars

C23_Witness ==
    \E q \in Slots :
        /\ Constructed(q) /\ Built(q)
        /\ WasCompiled(q) /\ submitted[q] # <<>>
        /\ compiled[q].text = submitted[q][1]
        /\ compiled[q].text.stage = "cumulative"
        /\ compiled[q].metrics = orgMetrics /\ Len(orgMetrics) = 2
        /\ compiled[q].computed = orgComputed
        /\ Truthy(objs[q].before)
====
